---- MODULE Spec2Model ----
(***************************************************************************)
(* Session registry and message routing of the paragon-mcp gateway         *)
(* (src/src/index.ts): GET /sse, POST /messages, GET /health, the          *)
(* disconnect hook of every stream and the SIGTERM/SIGINT handler.         *)
(*                                                                         *)
(* The process is single threaded: every action below is one event-loop    *)
(* turn of one handler, from its start (or from the settlement of the      *)
(* promise it awaits) up to its next await or its return.                  *)
(***************************************************************************)
EXTENDS Integers, Sequences, FiniteSets, TLC

\* ---------------------------------------------------------------- bounds
MaxSessions == 2      \* streams opened over the life of the process
NumIds      == 2      \* distinct values randomUUID() can return
MaxSignals  == 2      \* termination signals delivered
MaxPending  == 1      \* POST /messages requests awaiting their transport

Sessions == 1..MaxSessions
Ids      == 1..NumIds
Runs     == 1..MaxSignals

\* ---------------------------------------------------------- request data
Users == {"alice", "bob"}

\* A token is what jsonwebtoken would make of the string: the subject it
\* carries and whether its signature matches the signing key.
Malformed == [sub |-> "none", sig |-> "malformed"]
Tokens    == [sub : Users, sig : {"good", "bad"}] \cup {Malformed}

\* The bearer credentials a client presents.
Presented == {[sub |-> "alice", sig |-> "good"],
              [sub |-> "alice", sig |-> "bad"],
              Malformed}

signJwt(claims) == [sub |-> claims.userId, sig |-> "good"]

verify(token) == token.sig = "good"

decode(token) == IF token.sig = "malformed" THEN "undefined" ELSE token.sub

\* req.headers.authorization: absent, another scheme, or "Bearer <cred>".
NoHeader == [scheme |-> "none", cred |-> Malformed]
Headers  == {NoHeader, [scheme |-> "Basic", cred |-> Malformed]}
              \cup {[scheme |-> "Bearer", cred |-> t] : t \in Presented}

\* req.query.user: absent or a user name.
NoUser     == "undefined"
UserParams == {NoUser} \cup Users

\* The stream requests clients send: the header and the user parameter.
SseRequests == [header : Headers, user : UserParams]

\* How a handlePostMessage call can end: whether it threw, and whether the
\* response head had been written by then.
PostOutcomes ==
  {[threw |-> FALSE, headersSent |-> TRUE],
   [threw |-> TRUE, headersSent |-> FALSE],
   [threw |-> TRUE, headersSent |-> TRUE]}

\* req.query.sessionId: absent, a UUID, or the name of a property every
\* plain object inherits from Object.prototype.
NoSessionId == 0
ProtoKey    == -1
SessionIdParams == {NoSessionId, ProtoKey} \cup Ids

\* --------------------------------------------------------------- registry
\* transports: Record<string, TransportPayload>.  Undefined marks an id that
\* is not an own property of the object.
Undefined == [transport |-> 0, currentJwt |-> Malformed]
Payloads  == [transport : Sessions, currentJwt : Tokens]

VARIABLES
  nodeEnv,      \* envs.NODE_ENV
  running,      \* the process has not exited
  exitCode,     \* exit code once it has
  transports,   \* the registry: id -> payload or Undefined
  nSessions,    \* SSEServerTransport objects constructed so far
  sessionId,    \* transport.sessionId of each of them
  resClosed,    \* res "close" has been emitted for the stream
  idReused,     \* some stream was given an id that was registered
  pending,      \* handlePostMessage calls in flight, per transport
  nSignals,     \* termination signals received
  pc,           \* where each run of handleShutdown stands
  openAtSignal, \* sessions registered when the run started
  closeRes,     \* outcome of the close each run invoked, per transport
  drained,      \* sessions whose entry the shutdown loop deleted
  reply         \* what the handler that ran last did; "none" otherwise

vars == <<nodeEnv, running, exitCode, transports, nSessions, sessionId,
          resClosed, idReused, pending, nSignals, pc, openAtSignal,
          closeRes, drained, reply>>

NoReply == [route |-> "none"]

\* What a handler found when its turn began; its reply carries it.
Was == [transports |-> transports, nSessions |-> nSessions,
        pending |-> pending]

\* Object.keys(transports)
ObjectKeys(t) == {i \in Ids : t[i] # Undefined}

\* Object.values that loses the entry of the highest id.
ObjectValues_DropsLast(t) ==
  {t[i].transport : i \in {j \in ObjectKeys(t) :
                              \E k \in ObjectKeys(t) : k > j}}

\* Object.values(transports), as the set of transports the payloads hold
ObjectValues(t) == {t[i].transport : i \in ObjectKeys(t)}

\* A count that only tells whether there is a connection.
Count_AtMostOne(t) == IF ObjectKeys(t) = {} THEN 0 ELSE 1

\* Object.keys(transports).length
Count(t) == Cardinality(ObjectKeys(t))

\* A delete that empties the registry.
Delete_Everything(t, id) == [i \in Ids |-> Undefined]

\* A delete that leaves the entry in place.
Delete_Keeps(t, id) == t

\* delete transports[id]
Delete(t, id) == [t EXCEPT ![id] = Undefined]

Init ==
  /\ nodeEnv \in {"development", "production"}
  /\ running = TRUE
  /\ exitCode = -1
  /\ transports = [i \in Ids |-> Undefined]
  /\ nSessions = 0
  /\ sessionId = [s \in Sessions |-> 0]
  /\ resClosed = [s \in Sessions |-> FALSE]
  /\ idReused = FALSE
  /\ pending = [s \in Sessions |-> 0]
  /\ nSignals = 0
  /\ pc = [r \in Runs |-> "idle"]
  /\ openAtSignal = [r \in Runs |-> {}]
  /\ closeRes = [r \in Runs |-> [s \in Sessions |-> "none"]]
  /\ drained = {}
  /\ reply = NoReply

\* ------------------------------------------------------------- GET /sse
\* The user parameter honoured whatever NODE_ENV is.
Authenticate_AnyEnv(header, user) ==
  IF header.scheme = "Bearer"
    THEN [ok |-> TRUE, jwt |-> header.cred]
    ELSE IF user # NoUser
      THEN [ok |-> TRUE, jwt |-> signJwt([userId |-> user])]
      ELSE [ok |-> FALSE, jwt |-> Malformed]

\* Lines 57-66: the credential of a stream request, or none (401).
Authenticate(header, user) ==
  IF header.scheme = "Bearer"
    THEN [ok |-> TRUE, jwt |-> header.cred]
    ELSE IF nodeEnv = "development" /\ user # NoUser
      THEN [ok |-> TRUE, jwt |-> signJwt([userId |-> user])]
      ELSE [ok |-> FALSE, jwt |-> Malformed]

\* A registration that has not happened yet when the transport is bound.
Put_Skipped(t, id, s, jwt) == t

\* A registration that stores the raw header value instead of the token.
Put_LosesJwt(t, id, s, jwt) ==
  [t EXCEPT ![id] = [transport |-> s, currentJwt |-> Malformed]]

\* transports[transport.sessionId] = { transport, currentJwt }
Put(t, id, s, jwt) == [t EXCEPT ![id] = [transport |-> s, currentJwt |-> jwt]]

SseUnauthorized(header, user) ==
  /\ running
  /\ reply = NoReply
  /\ ~Authenticate(header, user).ok
  /\ reply' = [route |-> "sse", header |-> header, user |-> user,
               status |-> 401, session |-> 0, was |-> Was]
  /\ UNCHANGED <<nodeEnv, running, exitCode, transports, nSessions,
                 sessionId, resClosed, idReused, pending, nSignals, pc,
                 openAtSignal, closeRes, drained>>

SseConnect(header, user, id) ==
  /\ running
  /\ reply = NoReply
  /\ Authenticate(header, user).ok
  /\ nSessions < MaxSessions
  /\ LET s == nSessions + 1
         jwt == Authenticate(header, user).jwt
         \* the registry after line 69, which is what line 84 finds
         atBind == Put(transports, id, s, jwt)
     IN /\ nSessions' = s
        /\ sessionId' = [sessionId EXCEPT ![s] = id]
        /\ idReused' = (idReused \/ id \in ObjectKeys(transports))
        /\ transports' = atBind
        /\ reply' = [route |-> "sse", header |-> header, user |-> user,
                     status |-> 200, session |-> s, was |-> Was,
                     registeredAtBind |-> atBind[id].transport = s]
  /\ UNCHANGED <<nodeEnv, running, exitCode, resClosed, pending, nSignals,
                 pc, openAtSignal, closeRes, drained>>

\* A hook whose delete throws when the key is gone: the uncaught exception
\* ends the process.
Disconnect_ThrowsIfAbsent(s) ==
  /\ running
  /\ reply = NoReply
  /\ s <= nSessions
  /\ ~resClosed[s]
  /\ resClosed' = [resClosed EXCEPT ![s] = TRUE]
  /\ transports' = Delete(transports, sessionId[s])
  /\ running' = (sessionId[s] \in ObjectKeys(transports))
  /\ exitCode' = IF sessionId[s] \in ObjectKeys(transports) THEN exitCode ELSE 1
  /\ UNCHANGED reply
  /\ UNCHANGED <<nodeEnv, nSessions, sessionId, idReused, pending,
                 nSignals, pc, openAtSignal, closeRes, drained>>

\* Lines 79-82: res.on("close") of stream s.
Disconnect(s) ==
  /\ running
  /\ reply = NoReply
  /\ s <= nSessions
  /\ ~resClosed[s]
  /\ resClosed' = [resClosed EXCEPT ![s] = TRUE]
  /\ transports' = Delete(transports, sessionId[s])
  /\ UNCHANGED reply
  /\ UNCHANGED <<nodeEnv, running, exitCode, nSessions, sessionId, idReused,
                 pending, nSignals, pc, openAtSignal, closeRes, drained>>

\* -------------------------------------------------------- POST /messages
\* What a property that Object.prototype supplies reads as: a truthy value
\* that has no transport.
Inherited == [transport |-> -1, currentJwt |-> Malformed]

\* A lookup that ignores the id and returns the first entry.
Get_FirstEntry(t, id) ==
  IF id \in Ids /\ ObjectKeys(t) # {}
    THEN t[CHOOSE i \in ObjectKeys(t) : \A j \in ObjectKeys(t) : i <= j]
  ELSE IF id = ProtoKey THEN Inherited
  ELSE Undefined

\* transports[sessionId]
Get(t, id) ==
  IF id \in Ids THEN t[id]
  ELSE IF id = ProtoKey THEN Inherited
  ELSE Undefined

\* A catch whose 500 is not returned, so the 404 below follows it.
RouterSends_FallsThrough(threw, headersSent) ==
  IF ~threw THEN << >>
  ELSE IF ~headersSent THEN <<500, 404>>
  ELSE <<404>>

\* Lines 95-103: what the router itself sends once the delegation is over.
RouterSends(threw, headersSent) ==
  IF ~threw THEN << >>
  ELSE IF ~headersSent THEN <<500>>
  ELSE <<404>>

RECURSIVE SumTo(_, _)
SumTo(f, n) == IF n = 0 THEN 0 ELSE f[n] + SumTo(f, n - 1)

\* requests suspended at line 94
InFlight == SumTo(pending, MaxSessions)

PostNotFound(id) ==
  /\ running
  /\ reply = NoReply
  /\ ~(id # NoSessionId /\ Get(transports, id) # Undefined)
  /\ reply' = [route |-> "messages", sessionId |-> id, stage |-> "arrive",
               delegatedTo |-> 0, threw |-> FALSE, headersSent |-> FALSE,
               sends |-> <<404>>, was |-> Was]
  /\ UNCHANGED <<nodeEnv, running, exitCode, transports, nSessions,
                 sessionId, resClosed, idReused, pending, nSignals, pc,
                 openAtSignal, closeRes, drained>>

\* The lookup hit a value without a transport: reading handlePostMessage of
\* undefined throws inside the try, before anything was sent.
PostNoTransport(id) ==
  /\ running
  /\ reply = NoReply
  /\ id # NoSessionId
  /\ Get(transports, id) # Undefined
  /\ Get(transports, id).transport \notin Sessions
  /\ reply' = [route |-> "messages", sessionId |-> id, stage |-> "arrive",
               delegatedTo |-> 0, threw |-> TRUE, headersSent |-> FALSE,
               sends |-> RouterSends(TRUE, FALSE), was |-> Was]
  /\ UNCHANGED <<nodeEnv, running, exitCode, transports, nSessions,
                 sessionId, resClosed, idReused, pending, nSignals, pc,
                 openAtSignal, closeRes, drained>>

\* Line 94: handlePostMessage is invoked and the handler suspends.
PostDelegate(id) ==
  /\ running
  /\ reply = NoReply
  /\ id # NoSessionId
  /\ Get(transports, id) # Undefined
  /\ Get(transports, id).transport \in Sessions
  /\ InFlight < MaxPending
  /\ LET s == Get(transports, id).transport
     IN /\ pending' = [pending EXCEPT ![s] = @ + 1]
        /\ reply' = [route |-> "messages", sessionId |-> id,
                     stage |-> "arrive", delegatedTo |-> s, threw |-> FALSE,
                     headersSent |-> FALSE, sends |-> << >>, was |-> Was]
  /\ UNCHANGED <<nodeEnv, running, exitCode, transports, nSessions,
                 sessionId, resClosed, idReused, nSignals, pc, openAtSignal,
                 closeRes, drained>>

\* Lines 94-103: the promise of handlePostMessage settles.  The transport
\* may or may not have written the response head by then.
PostSettle(s, threw, headersSent) ==
  /\ running
  /\ reply = NoReply
  /\ pending[s] > 0
  /\ pending' = [pending EXCEPT ![s] = @ - 1]
  /\ reply' = [route |-> "messages", sessionId |-> sessionId[s],
               stage |-> "settle", delegatedTo |-> s, threw |-> threw,
               headersSent |-> headersSent,
               sends |-> RouterSends(threw, headersSent), was |-> Was]
  /\ UNCHANGED <<nodeEnv, running, exitCode, transports, nSessions,
                 sessionId, resClosed, idReused, nSignals, pc, openAtSignal,
                 closeRes, drained>>

\* ----------------------------------------------------------- GET /health
Health ==
  /\ running
  /\ reply = NoReply
  /\ reply' = [route |-> "health", status |-> 200,
               activeConnections |-> Count(transports), was |-> Was]
  /\ UNCHANGED <<nodeEnv, running, exitCode, transports, nSessions,
                 sessionId, resClosed, idReused, pending, nSignals, pc,
                 openAtSignal, closeRes, drained>>

\* -------------------------------------------------------- handleShutdown
\* Sessions whose own entry is in the registry.
Registered == {s \in 1..nSessions : transports[sessionId[s]].transport = s}

\* transports the shutdown runs have invoked close on, with multiplicity
CloseCalls(s) == Cardinality({r \in Runs : closeRes[r][s] # "none"})

\* A loop that stops one key short.
DeleteAll_KeepsLast(t) ==
  [i \in Ids |-> IF \E k \in ObjectKeys(t) : k > i THEN Undefined ELSE t[i]]

\* Lines 177-179: for (const key in transports) delete transports[key]
DeleteAll(t) == [i \in Ids |-> IF i \in ObjectKeys(t) THEN Undefined ELSE t[i]]

\* Promise.race in the place of Promise.all: the first close to settle decides.
AllOf_Race(res) ==
  IF \E s \in Sessions : res[s] = "ok" THEN "fulfilled"
  ELSE IF \E s \in Sessions : res[s] = "fail" THEN "rejected"
  ELSE "pending"

\* Promise.all over the closes of run r, given their outcomes
AllOf(res) ==
  IF \E s \in Sessions : res[s] = "fail" THEN "rejected"
  ELSE IF \E s \in Sessions : res[s] = "pending" THEN "pending"
  ELSE "fulfilled"

\* Lines 169-176: SIGTERM or SIGINT.  Every close is invoked in this turn;
\* with nothing to close the run goes straight on to server.close().
Signal ==
  /\ running
  /\ reply = NoReply
  /\ nSignals < MaxSignals
  /\ LET r == nSignals + 1
         closing == ObjectValues(transports)
     IN /\ nSignals' = r
        /\ openAtSignal' = [openAtSignal EXCEPT ![r] = Registered]
        /\ closeRes' = [closeRes EXCEPT ![r] =
             [s \in Sessions |-> IF s \in closing THEN "pending" ELSE "none"]]
        /\ pc' = [pc EXCEPT ![r] =
             IF closing = {} THEN "awaitServer" ELSE "awaitCloses"]
  /\ UNCHANGED reply
  /\ UNCHANGED <<nodeEnv, running, exitCode, transports, nSessions,
                 sessionId, resClosed, idReused, pending, drained>>

\* One transport.close() of run r settles; Promise.all reacts.
CloseSettle(r, s, outcome) ==
  /\ running
  /\ reply = NoReply
  /\ closeRes[r][s] = "pending"
  /\ LET res == [closeRes[r] EXCEPT ![s] = outcome]
     IN /\ closeRes' = [closeRes EXCEPT ![r] = res]
        /\ pc' = [pc EXCEPT ![r] =
             IF pc[r] # "awaitCloses" THEN pc[r]
             ELSE IF AllOf(res) = "rejected" THEN "rejected"
             ELSE IF AllOf(res) = "fulfilled" THEN "awaitServer"
             ELSE "awaitCloses"]
  /\ UNCHANGED reply
  /\ UNCHANGED <<nodeEnv, running, exitCode, transports, nSessions,
                 sessionId, resClosed, idReused, pending, nSignals,
                 openAtSignal, drained>>

\* Lines 176-180: server.close() of run r resolved.
ServerClosed(r) ==
  /\ running
  /\ reply = NoReply
  /\ pc[r] = "awaitServer"
  /\ pc' = [pc EXCEPT ![r] = "done"]
  /\ drained' = drained \cup Registered
  /\ transports' = DeleteAll(transports)
  /\ running' = FALSE
  /\ exitCode' = 0
  /\ UNCHANGED reply
  /\ UNCHANGED <<nodeEnv, nSessions, sessionId, resClosed, idReused,
                 pending, nSignals, openAtSignal, closeRes>>

\* Line 176: server.close() of run r rejected.
ServerCloseFailed(r) ==
  /\ running
  /\ reply = NoReply
  /\ pc[r] = "awaitServer"
  /\ pc' = [pc EXCEPT ![r] = "rejected"]
  /\ UNCHANGED reply
  /\ UNCHANGED <<nodeEnv, running, exitCode, transports, nSessions,
                 sessionId, resClosed, idReused, pending, nSignals,
                 openAtSignal, closeRes, drained>>

\* Lines 183-184: nothing handles the promise handleShutdown returns.  A
\* runtime that throws on unhandled rejections ends the process with code
\* 1; one that only warns leaves it running (this action is then not taken).
UnhandledRejection(r) ==
  /\ running
  /\ reply = NoReply
  /\ pc[r] = "rejected"
  /\ running' = FALSE
  /\ exitCode' = 1
  /\ UNCHANGED reply
  /\ UNCHANGED <<nodeEnv, transports, nSessions, sessionId, resClosed,
                 idReused, pending, nSignals, pc, openAtSignal, closeRes,
                 drained>>

\* The handler's turn is over: the record of what it did is dropped before
\* the event loop runs anything else.
EndOfTurn ==
  /\ reply # NoReply
  /\ reply' = NoReply
  /\ UNCHANGED <<nodeEnv, running, exitCode, transports, nSessions,
                 sessionId, resClosed, idReused, pending, nSignals, pc,
                 openAtSignal, closeRes, drained>>

Next ==
  \/ \E q \in SseRequests : SseUnauthorized(q.header, q.user)
  \/ \E q \in SseRequests, id \in Ids : SseConnect(q.header, q.user, id)
  \/ \E s \in Sessions : Disconnect(s)
  \/ \E id \in SessionIdParams : PostNotFound(id)
  \/ \E id \in SessionIdParams : PostNoTransport(id)
  \/ \E id \in SessionIdParams : PostDelegate(id)
  \/ \E s \in Sessions, o \in PostOutcomes :
       PostSettle(s, o.threw, o.headersSent)
  \/ Health
  \/ Signal
  \/ \E r \in Runs, s \in Sessions, o \in {"ok", "fail"} : CloseSettle(r, s, o)
  \/ \E r \in Runs : ServerClosed(r)
  \/ \E r \in Runs : ServerCloseFailed(r)
  \/ \E r \in Runs : UnhandledRejection(r)
  \/ EndOfTurn

Spec == Init /\ [][Next]_vars

TypeOK ==
  /\ nodeEnv \in {"development", "production"}
  /\ running \in BOOLEAN
  /\ exitCode \in {-1, 0, 1}
  /\ transports \in [Ids -> Payloads \cup {Undefined}]
  /\ nSessions \in 0..MaxSessions
  /\ sessionId \in [Sessions -> Ids \cup {0}]
  /\ resClosed \in [Sessions -> BOOLEAN]
  /\ pending \in [Sessions -> 0..MaxPending]
  /\ nSignals \in 0..MaxSignals
  /\ drained \subseteq Sessions

\* ================================================================ claims
IsPost(stage) == reply.route = "messages" /\ reply.stage = stage

\* C1: a POST /messages whose sessionId is a key of the registry is handed
\* to the transport stored under that key, once, and to no other transport;
\* the settlement of the call hands it to nobody again.
C1_DelegatesToMatchingSessionOnce ==
  /\ (IsPost("arrive") /\ reply.sessionId \in ObjectKeys(reply.was.transports))
       => LET s == reply.was.transports[reply.sessionId].transport
          IN /\ reply.delegatedTo = s
             /\ pending = [reply.was.pending EXCEPT ![s] = @ + 1]
  /\ IsPost("settle") => \A s \in Sessions : pending[s] <= reply.was.pending[s]

C1_Witness ==
  /\ IsPost("arrive")
  /\ reply.delegatedTo \in Sessions
  /\ Count(reply.was.transports) = 2

\* C2: a POST /messages whose sessionId is absent or is no key of the
\* registry is answered 404, is handed to no transport and leaves the
\* registry as it was.
C2_UnknownSessionIs404 ==
  (IsPost("arrive") /\ reply.sessionId \notin ObjectKeys(reply.was.transports))
    => /\ reply.sends = <<404>>
       /\ reply.delegatedTo = 0
       /\ pending = reply.was.pending
       /\ transports = reply.was.transports

\* C3: when the delegation throws after the response head was written, the
\* router sends nothing itself.
C3_NoSecondResponse ==
  (IsPost("settle") /\ reply.threw /\ reply.headersSent) => reply.sends = << >>

\* C4: a stream request whose bearer token does not verify is answered 401
\* and creates no session.
C4_UnverifiedBearerRejected ==
  (reply.route = "sse" /\ reply.header.scheme = "Bearer"
     /\ ~verify(reply.header.cred))
    => /\ reply.status = 401
       /\ nSessions = reply.was.nSessions
       /\ transports = reply.was.transports

\* C5: a stream request without a bearer header is answered 401, outside
\* development mode whatever its user parameter, and in development mode
\* when it has none; no transport is made and the registry is as it was.
C5_NoBearerIs401 ==
  (reply.route = "sse" /\ reply.header.scheme # "Bearer"
     /\ (nodeEnv # "development" \/ reply.user = NoUser))
    => /\ reply.status = 401
       /\ reply.session = 0
       /\ nSessions = reply.was.nSessions
       /\ transports = reply.was.transports

C5_Witness ==
  /\ reply.route = "sse"
  /\ reply.header = NoHeader
  /\ reply.user = "alice"
  /\ nodeEnv = "production"
  /\ reply.status = 401
  /\ Count(transports) > 0

\* Sessions whose stream has disconnected or that the shutdown loop removed.
Removed == {s \in 1..nSessions : resClosed[s] \/ s \in drained}

\* C6: as long as no id was handed out while it was registered, the registry
\* holds as many entries as sessions were connected less those disconnected
\* or drained; the number is never negative and is 0 once a shutdown has
\* run its loop.
C6_CountIsConnectedMinusRemoved ==
  ~idReused
    => /\ Count(transports) = nSessions - Cardinality(Removed)
       /\ Count(transports) >= 0
       /\ (\E r \in Runs : pc[r] = "done") => Count(transports) = 0

C6_Witness ==
  /\ ~idReused
  /\ nSessions = 2
  /\ \E s \in Sessions : resClosed[s] /\ s \notin drained
  /\ drained # {}

\* C7: after a single termination signal, close has been invoked exactly
\* once on the transport of every session that was registered when the
\* signal arrived.
C7_SingleSignalClosesEachOnce ==
  nSignals = 1 => \A s \in openAtSignal[1] : CloseCalls(s) = 1

C7_Witness ==
  /\ nSignals = 1
  /\ Cardinality(openAtSignal[1]) = 2

\* C8: every run of the shutdown handler after the first finds the registry
\* empty and invokes close on nothing; no transport is closed twice.
C8_SecondSignalClosesNothing ==
  /\ \A r \in Runs : r >= 2 => \A s \in Sessions : closeRes[r][s] = "none"
  /\ \A s \in Sessions : CloseCalls(s) <= 1

\* A run that has nothing left to wait for.
Quiescent(r) ==
  /\ pc[r] \in {"rejected", "done"}
  /\ \A s \in Sessions : closeRes[r][s] # "pending"

\* C9: once a signal was received and every close it led to has settled,
\* well or badly, the process has exited with code 0.
C9_ShutdownExitsWithSuccess ==
  (nSignals >= 1 /\ \A r \in 1..nSignals : Quiescent(r))
    => (~running /\ exitCode = 0)

\* C10: when one close of a run fails, the run has still invoked close on
\* every session registered at its start, and it is past its wait for the
\* closes only when every one of them has settled.
C10_FailedCloseStillAwaitsAll ==
  \A r \in 1..nSignals :
    (\E s \in Sessions : closeRes[r][s] = "fail")
      => /\ \A s \in openAtSignal[r] : closeRes[r][s] # "none"
         /\ pc[r] # "awaitCloses"
              => \A s \in Sessions : closeRes[r][s] # "pending"
\* C11: when a run of the shutdown handler has gone through its steps, the
\* registry is empty, whatever disconnected or connected while it waited.
C11_RegistryEmptyAfterShutdown ==
  (\E r \in Runs : pc[r] = "done") => ObjectKeys(transports) = {}

\* A run finished after a stream had connected behind its back.
C11_Witness ==
  \E r \in Runs :
    /\ pc[r] = "done"
    /\ \E s \in drained : s \notin openAtSignal[r]
    /\ \E s \in openAtSignal[r] : resClosed[s]

\* No other stream was ever given the id of session a.
UniqueId(a) == \A t \in (1..nSessions) \ {a} : sessionId[t] # sessionId[a]

\* C12: for sessions under distinct ids, a message posted with the id of one
\* goes to that session's transport alone; the disconnect of one removes its
\* entry and leaves the entries of the others; a message posted with its id
\* after that is answered 404.
C12_TwoSessionsScenario ==
  \A a \in 1..nSessions :
    UniqueId(a) =>
      /\ resClosed[a] => sessionId[a] \notin ObjectKeys(transports)
      /\ (~resClosed[a] /\ \A r \in Runs : pc[r] # "done")
           => transports[sessionId[a]].transport = a
      /\ (IsPost("arrive") /\ reply.sessionId = sessionId[a])
           => IF resClosed[a]
                THEN reply.sends = <<404>> /\ reply.delegatedTo = 0
                ELSE /\ reply.delegatedTo = a
                     /\ pending = [reply.was.pending EXCEPT ![a] = @ + 1]

C12_Witness ==
  /\ IsPost("arrive")
  /\ reply.sends = <<404>>
  /\ \E a, b \in 1..nSessions :
       /\ sessionId[a] # sessionId[b]
       /\ reply.sessionId = sessionId[a]
       /\ resClosed[a]
       /\ transports[sessionId[b]].transport = b
\* C13: the disconnect hook of a stream runs once; when the stream's id is
\* no longer a key of the registry it changes nothing and raises nothing;
\* and, the shutdown loop apart, a key leaves the registry only in the one
\* run of the hook of a stream with that id.
C13_RemovalIsIdempotent ==
  [][ /\ \A s \in Sessions :
           resClosed'[s] # resClosed[s]
             => /\ ~resClosed[s]
                /\ running' /\ exitCode' = exitCode
                /\ sessionId[s] \notin ObjectKeys(transports)
                     => transports' = transports
      /\ (running' /\ ObjectKeys(transports') # ObjectKeys(transports)
            /\ ObjectKeys(transports') \subseteq ObjectKeys(transports))
           => \E s \in Sessions :
                /\ ~resClosed[s] /\ resClosed'[s]
                /\ ObjectKeys(transports) \ ObjectKeys(transports')
                     = {sessionId[s]}
    ]_vars

\* Two streams shared an id and both have disconnected: the hook that ran
\* second found the key gone.
C13_Witness ==
  /\ idReused
  /\ nSessions = 2
  /\ sessionId[1] = sessionId[2]
  /\ resClosed[1] /\ resClosed[2]
  /\ running
\* C14: when the delegation to a registered session's transport throws
\* before any response was sent, the router answers once, with 500, and the
\* registry is as it was.
C14_ThrowBeforeResponseIs500 ==
  (IsPost("settle") /\ reply.threw /\ ~reply.headersSent)
    => /\ reply.sends = <<500>>
       /\ transports = reply.was.transports

C14_Witness ==
  /\ IsPost("settle")
  /\ reply.threw /\ ~reply.headersSent
  /\ reply.sessionId \in ObjectKeys(transports)
  /\ transports[reply.sessionId].transport = reply.delegatedTo

\* C15: in development mode a stream request without a bearer header and
\* with user = u registers exactly one new session, whose stored token is
\* the one minted for u and decodes to u.
C15_DevUserMintsToken ==
  (reply.route = "sse" /\ nodeEnv = "development"
     /\ reply.header.scheme # "Bearer" /\ reply.user # NoUser)
    => /\ reply.status = 200
       /\ nSessions = reply.was.nSessions + 1
       /\ reply.session = nSessions
       /\ \E id \in Ids :
            /\ transports[id].transport = reply.session
            /\ transports[id].currentJwt = signJwt([userId |-> reply.user])
            /\ decode(transports[id].currentJwt) = reply.user
            /\ \A j \in Ids \ {id} : transports[j] = reply.was.transports[j]

C15_Witness ==
  /\ reply.route = "sse"
  /\ nodeEnv = "development"
  /\ reply.header = NoHeader
  /\ reply.user = "bob"
  /\ reply.status = 200
  /\ Count(reply.was.transports) = 1

C17_DrainedSessionsWereClosed ==
  \A s \in drained : CloseCalls(s) >= 1
\* C18: a run has invoked server.close() only once every close it invoked
\* has settled, and the process has exited with code 0 only once a run's
\* server.close() has settled and the registry has been emptied.
C18_ShutdownStepsInOrder ==
  /\ \A r \in Runs :
       pc[r] \in {"awaitServer", "done"}
         => \A s \in Sessions : closeRes[r][s] # "pending"
  /\ exitCode = 0
       => /\ ~running
          /\ \E r \in Runs : pc[r] = "done"
          /\ ObjectKeys(transports) = {}
  /\ \A r \in Runs : pc[r] = "done" => exitCode = 0

C18_Witness ==
  \E r \in Runs :
    /\ pc[r] = "done"
    /\ \A s \in Sessions : closeRes[r][s] = "ok"
    /\ exitCode = 0
\* Line 84: the streams server.connect has been called for; the start of
\* the transport sends the client the endpoint that carries the session id.
Bound == 1..nSessions

LastWriter(b) == \A t \in (b + 1)..nSessions : sessionId[t] # sessionId[b]

\* C20: the last stream to be given an id keeps the entry under that id
\* until its own disconnect (or the shutdown loop), whatever happens to
\* earlier streams that had the same id, and messages for the id go to it.
C20_EarlierDisconnectKeepsLaterSession ==
  \A b \in 1..nSessions :
    (LastWriter(b) /\ ~resClosed[b] /\ running)
      => /\ transports[sessionId[b]].transport = b
         /\ (IsPost("arrive") /\ reply.sessionId = sessionId[b])
              => reply.delegatedTo = b
====
